---- MODULE Spec2Model ----
(***************************************************************************)
(* The part-weight resolution functions of Summon-Shipping-Tool.           *)
(*                                                                         *)
(* The repository holds three snapshots of the get-part-weight handler:    *)
(*   "api"     src/netlify/functions/get-part-weight.js, lines 1-179       *)
(*   "html"    src/netlify/functions/get-part-weight.js, lines 181-375     *)
(*   "keyword" src/unnamed/part_000                                        *)
(* Each is modelled from its own text.  Definitions of the "html" snapshot *)
(* keep the source's names; the other two carry the suffix _api and        *)
(* _keyword where the source uses the same name again.                     *)
(*                                                                         *)
(* Text is a sequence of symbols.  A symbol is one character, or one atom  *)
(* of markup or of a label ("</td>", "weight") that the regular            *)
(* expressions of the source treat as a unit.                              *)
(*                                                                         *)
(* Three specifications:                                                   *)
(*   Spec           one invocation of a handler, from its event to its     *)
(*                  response                                               *)
(*   SpecNormalize  parseWeightToLbs on its own, over all short texts      *)
(*   SpecTwo        two invocations with their steps interleaved           *)
(***************************************************************************)
EXTENDS Integers, Sequences, FiniteSets, TLC

\* ------------------------------------------------------------------ symbols

DigitChars == {"0", "1", "2", "3", "4", "5", "6", "7", "8", "9"}

DigitVal(c) ==
  CASE c = "0" -> 0 [] c = "1" -> 1 [] c = "2" -> 2 [] c = "3" -> 3
    [] c = "4" -> 4 [] c = "5" -> 5 [] c = "6" -> 6 [] c = "7" -> 7
    [] c = "8" -> 8 [] c = "9" -> 9

\* String.prototype.toLowerCase / the i flag, symbol by symbol.
Lower(c) ==
  CASE c = "G" -> "g" [] c = "M" -> "m" [] c = "K" -> "k" [] c = "L" -> "l"
    [] c = "B" -> "b" [] c = "S" -> "s" [] c = "O" -> "o" [] c = "Z" -> "z"
    [] c = "R" -> "r" [] c = "X" -> "x"
    [] c = "Unit" -> "unit" [] c = "Weight" -> "weight" [] c = "Net" -> "net"
    [] c = "Package" -> "package" [] c = "Mass" -> "mass"
    [] OTHER -> c

\* String.prototype.toUpperCase, symbol by symbol.
Upper(c) ==
  CASE c = "g" -> "G" [] c = "m" -> "M" [] c = "k" -> "K" [] c = "l" -> "L"
    [] c = "b" -> "B" [] c = "s" -> "S" [] c = "o" -> "O" [] c = "z" -> "Z"
    [] c = "r" -> "R" [] c = "x" -> "X"
    [] OTHER -> c

LowerSeq(s) == [i \in 1..Len(s) |-> Lower(s[i])]

toUpperCase(s) == [i \in 1..Len(s) |-> Upper(s[i])]

\* \s
IsSpace(c) == c \in {" ", "\t", "\n"}

\* Symbols made of word characters only ([A-Za-z0-9_]).
WordSyms ==
  DigitChars \cup
  {"g", "m", "k", "l", "b", "s", "o", "z", "r", "x", "n", "a",
   "G", "M", "K", "L", "B", "S", "O", "Z", "R", "X", "N", "A", "_",
   "unit", "weight", "net", "package", "mass", "gross",
   "Unit", "Weight", "Net", "Package", "Mass"}

IsWordChar(c) == c \in WordSyms

\* Index of the first symbol at or after i that is not white space.
RECURSIVE SkipSpaces(_, _)
SkipSpaces(s, i) ==
  IF i <= Len(s) /\ IsSpace(s[i]) THEN SkipSpaces(s, i + 1) ELSE i

\* String.prototype.trim
RECURSIVE TrimLeft(_)
TrimLeft(s) ==
  IF s # <<>> /\ IsSpace(Head(s)) THEN TrimLeft(Tail(s)) ELSE s

RECURSIVE TrimRight(_)
TrimRight(s) ==
  IF s # <<>> /\ IsSpace(s[Len(s)]) THEN TrimRight(SubSeq(s, 1, Len(s) - 1)) ELSE s

Trim(s) == TrimRight(TrimLeft(s))

\* s has the symbols of w, lower-cased, at index i.
HasAt(s, i, w) ==
  /\ i >= 1
  /\ i + Len(w) - 1 <= Len(s)
  /\ \A j \in 1..Len(w) : Lower(s[i + j - 1]) = w[j]

\* ---------------------------------------------------------------- JS values

Undefined == [t |-> "undefined", s |-> <<>>, d |-> <<>>, e |-> 0]

Null == [t |-> "null", s |-> <<>>, d |-> <<>>, e |-> 0]

Str(s) == [t |-> "string", s |-> s, d |-> <<>>, e |-> 0]

\* A finite number: the digits d of an integer, without leading zeros, that
\* counts units of 10^-e.
Num(d, e) == [t |-> "number", s |-> <<>>, d |-> d, e |-> e]

\* NaN, and the infinities: the numbers that isFinite rejects.
NaN == [t |-> "nan", s |-> <<>>, d |-> <<>>, e |-> 0]

True == [t |-> "true", s |-> <<>>, d |-> <<>>, e |-> 0]

IsString(v) == v.t = "string"

IsNullish(v) == v.t \in {"undefined", "null"}

\* ToBoolean
Truthy(v) ==
  CASE v.t = "string" -> v.s # <<>>
    [] v.t = "number" -> v.d # <<>>
    [] v.t = "true" -> TRUE
    [] OTHER -> FALSE

\* a || b
Or(a, b) == IF Truthy(a) THEN a ELSE b

\* ------------------------------------------------------ decimal arithmetic

RECURSIVE StripZeros(_)
StripZeros(ds) ==
  IF ds # <<>> /\ Head(ds) = 0 THEN StripZeros(Tail(ds)) ELSE ds

Zeros(n) == [i \in 1..n |-> 0]

\* Long division of the digits ds by D, most significant digit first.
RECURSIVE DivDigits(_, _, _, _)
DivDigits(ds, D, rem, acc) ==
  IF ds = <<>>
  THEN [q |-> acc, r |-> rem]
  ELSE LET cur == rem * 10 + Head(ds)
       IN DivDigits(Tail(ds), D, cur % D, Append(acc, cur \div D))

\* ds + 1
RECURSIVE IncDigits(_)
IncDigits(ds) ==
  IF ds = <<>> THEN <<1>>
  ELSE IF ds[Len(ds)] < 9
       THEN [ds EXCEPT ![Len(ds)] = @ + 1]
       ELSE Append(IncDigits(SubSeq(ds, 1, Len(ds) - 1)), 0)

\* ds * k for a small k, least significant digit first with a carry.
RECURSIVE MulDigitsCarry(_, _, _)
MulDigitsCarry(ds, k, carry) ==
  IF ds = <<>>
  THEN IF carry = 0 THEN <<>> ELSE MulDigitsCarry(<<>>, k, carry \div 10) \o <<carry % 10>>
  ELSE LET cur == ds[Len(ds)] * k + carry
       IN MulDigitsCarry(SubSeq(ds, 1, Len(ds) - 1), k, cur \div 10) \o <<cur % 10>>

MulDigits(ds, k) == StripZeros(MulDigitsCarry(ds, k, 0))

\* round(ds / D), halves up.
DivRound(ds, D) ==
  LET qr == DivDigits(ds, D, 0, <<>>)
  IN StripZeros(IF 2 * qr.r >= D THEN IncDigits(qr.q) ELSE qr.q)

\* ---------------------------------------------------------- parseWeightToLbs

Min(S) == CHOOSE x \in S : \A y \in S : x <= y

\* The alternatives of (mg|g|kg|lb|lbs|oz), in the order the expression tries them.
WeightUnits ==
  << <<"m", "g">>, <<"g">>, <<"k", "g">>, <<"l", "b">>, <<"l", "b", "s">>, <<"o", "z">> >>

\* [\d.]
IsNumChar(c) == c \in DigitChars \cup {"."}

\* Index of the first symbol at or after i that [\d.] does not match.
RECURSIVE RunEnd(_, _)
RunEnd(s, i) ==
  IF i <= Len(s) /\ IsNumChar(s[i]) THEN RunEnd(s, i + 1) ELSE i

\* \b between a word symbol ending at i - 1 and what follows.
WordBoundaryAt(s, i) == i > Len(s) \/ ~IsWordChar(s[i])

\* (mg|g|kg|lb|lbs|oz)\b at index i: the first alternative that matches, or 0.
UnitMatchAt(s, i) ==
  LET ok == {u \in 1..Len(WeightUnits) :
               /\ HasAt(s, i, WeightUnits[u])
               /\ WordBoundaryAt(s, i + Len(WeightUnits[u]))}
  IN IF ok = {} THEN 0 ELSE Min(ok)

\* /([\d.]+)\s*(mg|g|kg|lb|lbs|oz)\b/i matches with its first symbol at i.
WeightMatchAt(s, i) ==
  /\ IsNumChar(s[i])
  /\ UnitMatchAt(s, SkipSpaces(s, RunEnd(s, i))) # 0

\* s.match(/([\d.]+)\s*(mg|g|kg|lb|lbs|oz)\b/i): the leftmost match, m[1] and m[2].
WeightMatch(s) ==
  LET starts == {i \in 1..Len(s) : WeightMatchAt(s, i)}
  IN IF starts = {}
     THEN [found |-> FALSE, num |-> <<>>, unit |-> <<>>]
     ELSE LET i == Min(starts)
              j == RunEnd(s, i)
          IN [found |-> TRUE,
              num |-> SubSeq(s, i, j - 1),
              unit |-> WeightUnits[UnitMatchAt(s, SkipSpaces(s, j))]]

RECURSIVE DigitsEnd(_, _)
DigitsEnd(s, i) ==
  IF i <= Len(s) /\ s[i] \in DigitChars THEN DigitsEnd(s, i + 1) ELSE i

\* parseFloat of a run of digits and dots: the longest prefix that is a decimal
\* literal; NaN when the prefix holds no digit.
parseFloat(run) ==
  LET ie == DigitsEnd(run, 1)
      ip == SubSeq(run, 1, ie - 1)
      fe == IF ie <= Len(run) /\ run[ie] = "." THEN DigitsEnd(run, ie + 1) ELSE ie
      fp == IF fe > ie THEN SubSeq(run, ie + 1, fe - 1) ELSE <<>>
      ds == ip \o fp
  IN IF ds = <<>>
     THEN NaN
     ELSE Num(StripZeros([i \in 1..Len(ds) |-> DigitVal(ds[i])]), Len(fp))

isFinite(v) == v.t = "number"

\* 453.59237 grams to the pound, as the integer 45359237 * 10^-5.
GramsPerLbE5 == 45359237

OzPerLb == 16

\* The divisor of a unit and the power of ten that goes with it.
UnitDivisor(unit) ==
  CASE unit = <<"m", "g">> -> [D |-> GramsPerLbE5, shift |-> 2]
    [] unit = <<"g">> -> [D |-> GramsPerLbE5, shift |-> 5]
    [] unit = <<"k", "g">> -> [D |-> GramsPerLbE5, shift |-> 8]
    [] unit = <<"o", "z">> -> [D |-> OzPerLb, shift |-> 0]
    [] OTHER -> [D |-> 1, shift |-> 0]

\* The pounds of value in unit, as a count of 10^-places lb rounded to the
\* nearest.  The inputs of the model keep places + shift >= value.e.
ToLbs(value, unit, places) ==
  LET ud == UnitDivisor(unit)
  IN Num(DivRound(value.d \o Zeros(places + ud.shift - value.e), ud.D), places)

\* The decimals of lbs.toFixed(10).
FixedPlaces == 10

parseWeightToLbs(raw) ==
  IF ~Truthy(raw) \/ ~IsString(raw)
  THEN [weightLbs |-> Null, parsedFrom |-> Null]
  ELSE LET s == Trim(raw.s)
           m == WeightMatch(s)
           value == parseFloat(m.num)
       IN IF ~m.found THEN [weightLbs |-> Null, parsedFrom |-> Str(s)]
          ELSE IF ~isFinite(value) THEN [weightLbs |-> Null, parsedFrom |-> Str(s)]
          ELSE [weightLbs |-> ToLbs(value, LowerSeq(m.unit), FixedPlaces),
                parsedFrom |-> Str(s)]

\* s.replace(/,/g, "")
RECURSIVE RemoveCommas(_)
RemoveCommas(s) ==
  IF s = <<>> THEN <<>>
  ELSE IF Head(s) = "," THEN RemoveCommas(Tail(s))
  ELSE <<Head(s)>> \o RemoveCommas(Tail(s))

\* The decimals at which the unrounded double of the "api" snapshot is recorded.
DoublePlaces == 20

parseWeightToLbs_api(raw) ==
  IF ~Truthy(raw) \/ ~IsString(raw)
  THEN [weightLbs |-> Null]
  ELSE LET s == Trim(RemoveCommas(raw.s))
           m == WeightMatch(s)
           value == parseFloat(m.num)
       IN IF ~m.found THEN [weightLbs |-> Null]
          ELSE IF ~isFinite(value) THEN [weightLbs |-> Null]
          ELSE [weightLbs |-> ToLbs(value, LowerSeq(m.unit), DoublePlaces)]

\* --------------------------------------------- scrapeUnitWeightFromMouserPage

\* html.replace(/\s+/g, " ")
RECURSIVE Compact(_)
Compact(s) ==
  IF s = <<>> THEN <<>>
  ELSE IF IsSpace(Head(s))
       THEN <<" ">> \o Compact(SubSeq(s, SkipSpaces(s, 1), Len(s)))
       ELSE <<Head(s)>> \o Compact(Tail(s))

\* The expressions are matched from left to right by positions in the text:
\* each step takes the index it starts at and gives the index after what it
\* matched, or 0 when it does not match; a step that starts at 0 gives 0.

\* <\/[^>]*>
CloseTags == {"</td>", "</b>", "</span>", "</tr>"}

\* <td[^>]*>
TdOpens == {"<td>", "<td class=v>"}

\* One symbol of set at i.
One(s, i, set) == IF i >= 1 /\ i <= Len(s) /\ s[i] \in set THEN i + 1 ELSE 0

\* \s* at i.
Spaces(s, i) == IF i = 0 THEN 0 ELSE SkipSpaces(s, i)

\* c? at i.
Opt(s, i, c) == IF i >= 1 /\ i <= Len(s) /\ s[i] = c THEN i + 1 ELSE i

\* Unit\s*Weight at i.
LabelEnd(s, i) ==
  IF HasAt(s, i, <<"unit">>) /\ HasAt(s, SkipSpaces(s, i + 1), <<"weight">>)
  THEN SkipSpaces(s, i + 1) + 1
  ELSE 0

\* unitWeight at i.
KeyEnd(s, i) == IF HasAt(s, i, <<"unit", "weight">>) THEN i + 2 ELSE 0

\* The alternatives of (?:mg|g|kg|oz|lb|lbs), in the order the expression tries them.
ScrapeUnits ==
  << <<"m", "g">>, <<"g">>, <<"k", "g">>, <<"o", "z">>, <<"l", "b">>, <<"l", "b", "s">> >>

RECURSIVE NumCommaEnd(_, _)
NumCommaEnd(s, i) ==
  IF i <= Len(s) /\ s[i] \in DigitChars \cup {".", ","} THEN NumCommaEnd(s, i + 1) ELSE i

\* ([0-9.,]+\s*(?:mg|g|kg|oz|lb|lbs)) at i: the captured text, or <<>>.
ValueAt(s, i) ==
  LET j == NumCommaEnd(s, i)
      k == SkipSpaces(s, j)
      ok == {u \in 1..Len(ScrapeUnits) : HasAt(s, k, ScrapeUnits[u])}
  IN IF i < 1 \/ j = i \/ ok = {} THEN <<>>
     ELSE SubSeq(s, i, k + Len(ScrapeUnits[Min(ok)]) - 1)

\* Unit\s*Weight\s*:?<\/[^>]*>\s*<\/td>\s*<td[^>]*>\s*(value) starting at i.
PatternA1(s, i) ==
  ValueAt(s,
    Spaces(s, One(s,
      Spaces(s, One(s,
        Spaces(s, One(s,
          Opt(s, Spaces(s, LabelEnd(s, i)), ":"),
          CloseTags)),
        {"</td>"})),
      TdOpens)))

\* Unit\s*Weight\s*:?<\/td>\s*<td[^>]*>\s*(value) starting at i.
PatternA2(s, i) ==
  ValueAt(s,
    Spaces(s, One(s,
      Spaces(s, One(s,
        Opt(s, Spaces(s, LabelEnd(s, i)), ":"),
        {"</td>"})),
      TdOpens)))

\* Unit\s*Weight\s*:\s*(value) starting at i.
PatternB(s, i) ==
  ValueAt(s, Spaces(s, One(s, Spaces(s, LabelEnd(s, i)), {":"})))

\* Index of the first symbol at or after i that is in stop, or Len(s) + 1.
RECURSIVE RunUntil(_, _, _)
RunUntil(s, i, stop) ==
  IF i <= Len(s) /\ s[i] \notin stop THEN RunUntil(s, i + 1, stop) ELSE i

\* ([^stop]+?) from c, closed at the index close: the captured text, or <<>>.
Capture(s, c, stop, close) ==
  IF c = 0 \/ close = 0 \/ RunUntil(s, c, stop) = c THEN <<>>
  ELSE SubSeq(s, c, RunUntil(s, c, stop) - 1)

\* ([^"]+?)" at c.
QuotedAt(s, c) ==
  IF c = 0 THEN <<>>
  ELSE Capture(s, c, {"\""}, One(s, RunUntil(s, c, {"\""}), {"\""}))

\* ([^\\"]+?)\\?" at c.
EscapedAt(s, c) ==
  IF c = 0 THEN <<>>
  ELSE Capture(s, c, {"\"", "\\"},
               One(s, Opt(s, RunUntil(s, c, {"\"", "\\"}), "\\"), {"\""}))

\* "Unit\s*Weight"\s*:\s*"([^"]+?)" starting at i; with the i flag it matches
\* "unitWeight" as well, so the second alternative of the source adds nothing.
PatternC1(s, i) ==
  QuotedAt(s,
    One(s,
      Spaces(s, One(s,
        Spaces(s, One(s, LabelEnd(s, One(s, i, {"\""})), {"\""})),
        {":"})),
      {"\""}))

\* "unitWeight"\s*:\s*"([^"]+?)" starting at i.
PatternC2(s, i) ==
  QuotedAt(s,
    One(s,
      Spaces(s, One(s,
        Spaces(s, One(s, KeyEnd(s, One(s, i, {"\""})), {"\""})),
        {":"})),
      {"\""}))

\* unitWeight\\?":\\?"([^\\"]+?)\\?" starting at i.
PatternC3(s, i) ==
  EscapedAt(s,
    One(s,
      Opt(s, One(s, One(s, Opt(s, KeyEnd(s, i), "\\"), {"\""}), {":"}), "\\"),
      {"\""}))

\* The expressions of the scraper, by their number.
PatternAt(k, s, i) ==
  CASE k = 1 -> PatternA1(s, i)
    [] k = 2 -> PatternA2(s, i)
    [] k = 3 -> PatternB(s, i)
    [] k = 4 -> PatternC1(s, i)
    [] k = 5 -> PatternC2(s, i)
    [] OTHER -> PatternC3(s, i)

\* The first text of caps that is not empty, or <<>>.
RECURSIVE FirstMatch(_)
FirstMatch(caps) ==
  IF caps = <<>> THEN <<>>
  ELSE IF Head(caps) # <<>> THEN Head(caps)
  ELSE FirstMatch(Tail(caps))

\* s.match(expression k)?.[1]: the capture of its leftmost match in s, or <<>>.
Leftmost(k, s) == FirstMatch([i \in 1..Len(s) |-> PatternAt(k, s, i)])

\* /(?:mg|g|kg|oz|lb|lbs)/i.test(s)
HasUnitText(s) ==
  \E i \in 1..Len(s) : \E u \in 1..Len(ScrapeUnits) : HasAt(s, i, ScrapeUnits[u])

cleanWeight(s) == Trim(RemoveCommas(s))

\* Lines 323-340: the first of the matches mA, mB, mC that gives a weight.
FirstWeight(mA, mB, mC) ==
  IF mA # <<>> THEN Str(cleanWeight(mA))
  ELSE IF mB # <<>> THEN Str(cleanWeight(mB))
  ELSE IF mC # <<>> /\ HasUnitText(mC) THEN Str(cleanWeight(mC))
  ELSE Null

\* Lines 320-336: the patterns A, B and C over the compacted text.
MatchCompact(compact) ==
  FirstWeight(FirstMatch(<<Leftmost(1, compact), Leftmost(2, compact)>>),
              Leftmost(3, compact),
              FirstMatch(<<Leftmost(4, compact), Leftmost(5, compact),
                           Leftmost(6, compact)>>))

\* The patterns of the scraper over the text of the page, in their order.
ScrapeHtml(html) ==
  IF html = <<>> THEN Null ELSE MatchCompact(Compact(html))

\* The outcome of fetch(url) and resp.text(): what the page fetch can do.
\*   kind "reject"      fetch rejects (transport error, timeout, bad url)
\*   kind "textReject"  resp.text() rejects, and the catch gives ""
\*   kind "body"        a response of any status with the text html
PageOutcome(kind, status, html) == [kind |-> kind, status |-> status, html |-> html]

\* The rawWeight of the object the scraper returns for a fetch outcome.
scrapeUnitWeightFromMouserPage(out) ==
  IF out.kind = "reject" THEN Null
  ELSE IF out.kind = "textReject" THEN ScrapeHtml(<<>>)
  ELSE ScrapeHtml(out.html)

\* ------------------------------------------------------------ vendor records

\* A fixed text (a message, a label, a URL) as a string of one symbol.
Msg(text) == Str(<<text>>)

Attr(name, value) == [AttributeName |-> name, AttributeValue |-> value]

\* ProductAttributes: absent ("none"), an array ("flat"), or an object that
\* holds the array under the key ProductAttribute ("nested").
NoAttrs == [shape |-> "none", list |-> <<>>]

FlatAttrs(list) == [shape |-> "flat", list |-> list]

NestedAttrs(list) == [shape |-> "nested", list |-> list]

\* A record of the vendor's search result with none of its fields set.
EmptyPart ==
  [Weight |-> Undefined, UnitWeight |-> Undefined, NetWeight |-> Undefined,
   PackageWeight |-> Undefined, ProductAttributes |-> NoAttrs,
   UnitWeightKg |-> Undefined,
   ProductDetailUrl |-> Undefined, DataSheetUrl |-> Undefined,
   Description |-> Undefined, Manufacturer |-> Undefined,
   ManufacturerPartNumber |-> Undefined, MouserPartNumber |-> Undefined]

\* rx.test(a?.AttributeName || "") of a name that is a string or absent.
NameText(a) == IF IsString(a.AttributeName) THEN a.AttributeName.s ELSE <<>>

\* /unit\s*weight|weight/i.test(name)
TestUnitWeightOrWeight(name) ==
  \E i \in 1..Len(name) : LabelEnd(name, i) # 0 \/ HasAt(name, i, <<"weight">>)

AttrNamesWeight(a) == TestUnitWeightOrWeight(NameText(a))

\* first?.ProductAttributes?.find?.((a) => /unit\s*weight|weight/i.test(...))?.AttributeValue
AttributeWeight(first) ==
  LET pa == first.ProductAttributes
      hits == {i \in 1..Len(pa.list) : AttrNamesWeight(pa.list[i])}
  IN IF pa.shape # "flat" \/ hits = {} THEN Undefined
     ELSE pa.list[Min(hits)].AttributeValue

\* first.Weight || first.UnitWeight || (attribute) || null
rawWeightFromApi(first) ==
  Or(first.Weight, Or(first.UnitWeight, Or(AttributeWeight(first), Null)))

\* ----------------------------------------------- extractRawWeight ("api")

normalizeAttributes(productAttributes) ==
  IF productAttributes.shape \in {"flat", "nested"} THEN productAttributes.list ELSE <<>>

\* word\s*weight at some index of name.
TestWordWeight(name, word) ==
  \E i \in 1..Len(name) :
    HasAt(name, i, <<word>>) /\ HasAt(name, SkipSpaces(name, i + 1), <<"weight">>)

\* \bword\b at some index of name.
TestBounded(name, word) ==
  \E i \in 1..Len(name) :
    /\ HasAt(name, i, <<word>>)
    /\ (i = 1 \/ ~IsWordChar(name[i - 1]))
    /\ WordBoundaryAt(name, i + 1)

\* The expressions of priority, by their index.
PriorityTest(k, name) ==
  CASE k = 1 -> TestWordWeight(name, "unit")
    [] k = 2 -> TestWordWeight(name, "net")
    [] k = 3 -> TestWordWeight(name, "package")
    [] k = 4 -> TestBounded(name, "weight")
    [] OTHER -> TestBounded(name, "mass")

PriorityCount == 5

\* What attrs.find does for the expression k: "hit" with the index of the hit,
\* "none", or "throw" when (a?.AttributeValue || "").trim is not a function
\* because a value that is not a string is reached first.
RECURSIVE FindAttr(_, _, _)
FindAttr(attrs, k, i) ==
  IF i > Len(attrs) THEN [r |-> "none", i |-> 0]
  ELSE LET a == attrs[i]
       IN IF ~PriorityTest(k, NameText(a)) THEN FindAttr(attrs, k, i + 1)
          ELSE IF Truthy(a.AttributeValue) /\ ~IsString(a.AttributeValue)
               THEN [r |-> "throw", i |-> i]
          ELSE IF Truthy(a.AttributeValue) /\ Trim(a.AttributeValue.s) # <<>>
               THEN [r |-> "hit", i |-> i]
          ELSE FindAttr(attrs, k, i + 1)

RECURSIVE FirstPriorityHit(_, _)
FirstPriorityHit(attrs, k) ==
  IF k > PriorityCount THEN [r |-> "none", i |-> 0]
  ELSE LET f == FindAttr(attrs, k, 1)
       IN IF f.r = "none" THEN FirstPriorityHit(attrs, k + 1) ELSE f

\* The direct fields, in the order of directCandidates.
DirectCandidates(product) ==
  << <<"UnitWeight", product.UnitWeight>>, <<"Weight", product.Weight>>,
     <<"NetWeight", product.NetWeight>>, <<"PackageWeight", product.PackageWeight>> >>

IsDirectHit(cand) == IsString(cand[2]) /\ Trim(cand[2].s) # <<>>

extractRawWeight(product) ==
  LET dc == DirectCandidates(product)
      dhits == {i \in 1..Len(dc) : IsDirectHit(dc[i])}
      di == IF dhits = {} THEN 0 ELSE Min(dhits)
      attrs == normalizeAttributes(product.ProductAttributes)
      hit == FirstPriorityHit(attrs, 1)
  IN IF di # 0
     THEN [threw |-> FALSE, rawWeight |-> Str(Trim(dc[di][2].s)),
           parsedFrom |-> Msg(dc[di][1])]
     ELSE IF hit.r = "throw"
     THEN [threw |-> TRUE, rawWeight |-> Null, parsedFrom |-> Null]
     ELSE IF hit.r = "hit"
     THEN [threw |-> FALSE, rawWeight |-> Str(Trim(attrs[hit.i].AttributeValue.s)),
           parsedFrom |-> Str(<<"ProductAttributes:">> \o NameText(attrs[hit.i]))]
     ELSE [threw |-> FALSE, rawWeight |-> Null, parsedFrom |-> Null]

\* ------------------------------------------------------------- the responses

\* What the vendor's body parses to: where SearchResults.Parts holds the
\* records ("missing": nowhere; "array": Parts itself; "nestedParts" and
\* "nestedPart": an object Parts with the array under Parts or Part) and Errors.
VendorData(shape, parts, errors) == [shape |-> shape, parts |-> parts, errors |-> errors]

\* {}
EmptyData == VendorData("missing", <<>>, <<>>)

\* The outcome of the vendor search call: fetch rejects ("reject"), or a
\* response of some status whose json() gives data (parse "ok") or rejects.
SearchOutcome(kind, status, parse, data) ==
  [kind |-> kind, status |-> status, parse |-> parse, data |-> data]

\* Response.ok
RespOk(out) == out.status \in 200..299

\* A response body with none of its keys set.
EmptyBody ==
  [error |-> Undefined, hasDetails |-> FALSE, details |-> EmptyData,
   weight |-> Undefined, source |-> Undefined,
   description |-> Undefined, manufacturer |-> Undefined,
   manufacturerPartNumber |-> Undefined, mouserPartNumber |-> Undefined,
   productUrl |-> Undefined, datasheetUrl |-> Undefined,
   rawWeight |-> Undefined, scrapedFromHtml |-> Undefined,
   parsedFrom |-> Undefined, notFound |-> Undefined, unitWeightKg |-> Undefined]

json(statusCode, obj) == [statusCode |-> statusCode, body |-> obj]

\* No response yet.
NoResponse == json(0, EmptyBody)

ErrorBody(message) == [EmptyBody EXCEPT !.error = message]

\* e?.message of a rejected fetch, of a body that is not JSON, of a TypeError.
FetchFailedMessage == Msg("fetch failed")

JsonSyntaxMessage == Msg("Unexpected token < in JSON")

TypeErrorMessage == Msg("x.trim is not a function")

\* catch (e) { return json(500, { error: e?.message || "Server error" }) }
Caught(message) == json(500, ErrorBody(Or(message, Msg("Server error"))))

\* ------------------------------------------------- handler ("html" snapshot)

MissingPart == json(400, ErrorBody(Msg("Missing ?part=...")))

MissingKey ==
  json(500, ErrorBody(Msg("MOUSER_API_KEY not set in Netlify environment variables")))

\* (event.queryStringParameters?.part || "") without the trim.
PartOf_noTrim(event) == Or(event.part, Str(<<>>)).s

\* (event.queryStringParameters?.part || "").trim()
PartOf(event) == Trim(Or(event.part, Str(<<>>)).s)

VendorFailed(out, apiData) ==
  json(out.status,
       [EmptyBody EXCEPT !.error = Msg("Mouser API request failed"),
                         !.hasDetails = TRUE, !.details = apiData])

\* await apiResp.json().catch(() => ({}))
ApiData(out) == IF out.parse = "ok" THEN out.data ELSE EmptyData

\* apiData?.SearchResults?.Parts || ...?.Parts?.Parts || ...?.Parts?.Part || [],
\* then Array.isArray(products) ? products[0] : null.  An object under Parts is
\* truthy, so the first operand is taken whenever Parts is there at all.
FirstProduct(apiData) ==
  IF apiData.shape = "array" /\ apiData.parts # <<>>
  THEN [found |-> TRUE, first |-> apiData.parts[1]]
  ELSE [found |-> FALSE, first |-> EmptyPart]

NotFound(part) ==
  json(200,
       [EmptyBody EXCEPT !.weight = Null, !.source = Msg("Mouser API"),
                         !.description = Null, !.manufacturer = Null,
                         !.manufacturerPartNumber = Str(part),
                         !.mouserPartNumber = Null, !.productUrl = Null,
                         !.datasheetUrl = Null, !.rawWeight = Null,
                         !.scrapedFromHtml = Null, !.parsedFrom = Null,
                         !.error = Msg("Not found on Mouser")])

\* first.ProductDetailUrl || null
ProductUrl(first) == Or(first.ProductDetailUrl, Null)

\* if (productUrl): the page is fetched whatever the record holds.
ShouldScrape_always(first) == Truthy(Or(first.ProductDetailUrl, Null))

\* if (!rawWeight && productUrl)
ShouldScrape(first) == ~Truthy(rawWeightFromApi(first)) /\ Truthy(ProductUrl(first))

\* Steps 4 and 5 of the handler: htmlRaw is htmlResult?.rawWeight, Null when
\* the page was not fetched.
Resolved(part, first, htmlRaw) ==
  LET fromApi == rawWeightFromApi(first)
      productUrl == ProductUrl(first)
      scraped == Truthy(htmlRaw)
      rawWeight == IF scraped THEN htmlRaw ELSE fromApi
      scrapedFromHtml == IF scraped THEN htmlRaw ELSE Null
      p == parseWeightToLbs(rawWeight)
  IN json(200,
       [EmptyBody EXCEPT
          !.weight = p.weightLbs,
          !.source = IF Truthy(p.weightLbs)
                     THEN (IF Truthy(fromApi) THEN Msg("Mouser API") ELSE Msg("Mouser HTML"))
                     ELSE Msg("Mouser (No Weight)"),
          !.description = Or(first.Description, Null),
          !.manufacturer = Or(first.Manufacturer, Null),
          !.manufacturerPartNumber = Or(first.ManufacturerPartNumber, Str(part)),
          !.mouserPartNumber = Or(first.MouserPartNumber, Null),
          !.productUrl = productUrl,
          !.datasheetUrl = Or(first.DataSheetUrl, Null),
          !.rawWeight = Or(rawWeight, Null),
          !.scrapedFromHtml = Or(scrapedFromHtml, Null),
          !.parsedFrom = Or(p.parsedFrom, Null),
          !.error = IF Truthy(p.weightLbs) THEN Null
                    ELSE IF Truthy(productUrl)
                         THEN Msg("Weight not found (API + HTML scrape)")
                         ELSE Msg("Weight not found (API only)")])

\* -------------------------------------------------- handler ("api" snapshot)

NotFound_api ==
  json(200,
       [EmptyBody EXCEPT !.weight = Null, !.source = Msg("Mouser API"),
                         !.description = Null, !.productUrl = Null,
                         !.datasheetUrl = Null, !.rawWeight = Null,
                         !.parsedFrom = Null,
                         !.error = Msg("Not found on Mouser")])

normalizeParts(data) ==
  IF data.shape \in {"array", "nestedParts"} THEN data.parts ELSE <<>>

\* Array.isArray(parts) ? parts[0] : null
FirstProduct_api(data) ==
  IF normalizeParts(data) # <<>>
  THEN [found |-> TRUE, first |-> normalizeParts(data)[1]]
  ELSE [found |-> FALSE, first |-> EmptyPart]

\* a ?? b
Coalesce(a, b) == IF IsNullish(a) THEN b ELSE a

\* Lines 53-69 of the handler, with the throw of extractRawWeight caught.
Resolved_api(first) ==
  LET x == extractRawWeight(first)
      p == parseWeightToLbs_api(x.rawWeight)
  IN IF x.threw THEN Caught(TypeErrorMessage)
     ELSE json(200,
       [EmptyBody EXCEPT
          !.weight = p.weightLbs,
          !.source = Msg("Mouser API"),
          !.description = Or(first.Description, Or(first.ManufacturerPartNumber, Null)),
          !.productUrl = Or(first.ProductDetailUrl, Null),
          !.datasheetUrl = Or(first.DataSheetUrl, Null),
          !.rawWeight = Coalesce(x.rawWeight, Null),
          !.parsedFrom = Coalesce(x.parsedFrom, Null),
          !.error = IF IsNullish(p.weightLbs)
                    THEN Msg("Weight not provided by Mouser for this listing")
                    ELSE Null])

\* ---------------------------------------------- handler ("keyword" snapshot)

MissingPart_keyword == json(400, ErrorBody(Msg("Missing ?part=")))

MissingKey_keyword ==
  json(500, ErrorBody(Msg("MOUSER_API_KEY is not set in Netlify env vars")))

\* The status in `Mouser API error (HTTP ${resp.status})`.
StatusText(status) ==
  CASE status = 200 -> "200" [] status = 403 -> "403" [] status = 500 -> "500"
    [] OTHER -> "status"

\* errors[0]?.Message || `Mouser API error (HTTP ${resp.status})`
VendorFailed_keyword(out, errors) ==
  json(200,
       [EmptyBody EXCEPT
          !.weight = Null, !.source = Msg("Mouser API"), !.description = Null,
          !.productUrl = Null, !.datasheetUrl = Null,
          !.error = Or(IF errors # <<>> THEN errors[1] ELSE Undefined,
                       Str(<<"Mouser API error (HTTP ", StatusText(out.status), ")">>))])

NotFound_keyword ==
  json(200,
       [EmptyBody EXCEPT !.weight = Null, !.source = Msg("Mouser API"),
                         !.description = Null, !.productUrl = Null,
                         !.datasheetUrl = Null, !.notFound = True])

\* data?.SearchResults?.Parts || []: an object under Parts has no length.
Parts_keyword(data) == IF data.shape = "array" THEN data.parts ELSE <<>>

\* parts.find((p) => (p?.ManufacturerPartNumber || "").toUpperCase() === part) || parts[0]
Exact(parts, part) ==
  LET hits == {i \in 1..Len(parts) :
                 toUpperCase(Or(parts[i].ManufacturerPartNumber, Str(<<>>)).s) = part}
  IN IF hits = {} THEN parts[1] ELSE parts[Min(hits)]

\* 2.2046226218 pounds to the kilogram, as the digits of 22046226218 * 10^-10.
LbsPerKgDigits == <<2, 2, 0, 4, 6, 2, 2, 6, 2, 1, 8>>

LbsPerKgPlaces == 10

RECURSIVE IntOf(_)
IntOf(ds) == IF ds = <<>> THEN 0 ELSE IntOf(SubSeq(ds, 1, Len(ds) - 1)) * 10 + ds[Len(ds)]

\* unitWeightKg * 2.2046226218 when unitWeightKg is a finite number, else null.
KgToLbs(unitWeightKg) ==
  IF unitWeightKg.t = "number"
  THEN Num(MulDigits(LbsPerKgDigits, IntOf(unitWeightKg.d)), unitWeightKg.e + LbsPerKgPlaces)
  ELSE Null

Resolved_keyword(exact) ==
  LET unitWeightKg == exact.UnitWeightKg
  IN json(200,
       [EmptyBody EXCEPT
          !.weight = KgToLbs(unitWeightKg),
          !.source = Msg("Mouser API"),
          !.description = Or(exact.Description, Null),
          !.manufacturer = Or(exact.Manufacturer, Null),
          !.manufacturerPartNumber = Or(exact.ManufacturerPartNumber, Null),
          !.mouserPartNumber = Or(exact.MouserPartNumber, Null),
          !.unitWeightKg = IF unitWeightKg.t \in {"number", "nan"} THEN unitWeightKg ELSE Null,
          !.productUrl = Or(exact.ProductDetailUrl, Null),
          !.datasheetUrl = Or(exact.DataSheetUrl, Null)])

\* ------------------------------------------------------------------- inputs

\* The longest list of records a vendor response holds.
MaxParts == 2

\* The largest quantity a request asks for.
MaxQty == 2

W(s) == Str(s)

Url == Msg("https://www.mouser.com/ProductDetail/x")

PartR1 == [EmptyPart EXCEPT !.ManufacturerPartNumber = W(<<"R", "1">>)]

\* Records the vendor may return.  Each names what it carries.
DirectAndUrl ==
  [PartR1 EXCEPT !.Weight = W(<<"5", " ", "g">>), !.ProductDetailUrl = Url]

UnitWeightOnly ==
  [PartR1 EXCEPT !.UnitWeight = W(<<"5", ".", "5", " ", "m", "g">>)]

AttrUnitWeight ==
  [PartR1 EXCEPT
     !.ProductAttributes =
        FlatAttrs(<<Attr(W(<<"Unit", " ", "Weight">>), W(<<"5", ".", "5", "0", "0", " ", "m", "g">>))>>),
     !.ProductDetailUrl = Url]

NoWeightUrl ==
  [PartR1 EXCEPT !.ProductDetailUrl = Url, !.Description = W(<<"r", " ", "0603">>)]

NoWeightNoUrl ==
  [PartR1 EXCEPT !.Description = W(<<"r", " ", "0603">>)]

ZeroWeight ==
  [PartR1 EXCEPT !.Weight = W(<<"0", " ", "g">>), !.ProductDetailUrl = Url]

UnparsableWeight ==
  [PartR1 EXCEPT !.Weight = W(<<"n", "/", "a">>), !.ProductDetailUrl = Url]

NumericWeight ==
  [PartR1 EXCEPT !.Weight = Num(<<5>>, 0), !.ProductDetailUrl = Url]

EmptyWeightAttrFirst ==
  [PartR1 EXCEPT
     !.ProductAttributes =
        FlatAttrs(<<Attr(W(<<"Weight">>), W(<<>>)),
                    Attr(W(<<"Unit", " ", "Weight">>), W(<<"5", " ", "g">>))>>),
     !.ProductDetailUrl = Url]

NestedAttr ==
  [PartR1 EXCEPT
     !.ProductAttributes =
        NestedAttrs(<<Attr(W(<<"Unit", " ", "Weight">>), W(<<"5", " ", "g">>))>>)]

NetWeightOnly ==
  [PartR1 EXCEPT !.NetWeight = W(<<"5", " ", "g">>)]

NumericAttr ==
  [PartR1 EXCEPT
     !.ProductAttributes = FlatAttrs(<<Attr(W(<<"Weight">>), Num(<<5>>, 0))>>)]

WeightBeforeUnitWeight ==
  [PartR1 EXCEPT
     !.ProductAttributes =
        FlatAttrs(<<Attr(W(<<"Weight">>), W(<<"1", " ", "g">>)),
                    Attr(W(<<"Unit", " ", "Weight">>), W(<<"5", " ", "g">>))>>)]

KgField ==
  [EmptyPart EXCEPT !.ManufacturerPartNumber = W(<<"x", "9">>),
                    !.UnitWeightKg = Num(<<5>>, 3), !.ProductDetailUrl = Url]

FirstRecords ==
  {DirectAndUrl, UnitWeightOnly, AttrUnitWeight, NoWeightUrl, NoWeightNoUrl,
   ZeroWeight, UnparsableWeight, NumericWeight, EmptyWeightAttrFirst, NestedAttr,
   NetWeightOnly, NumericAttr, WeightBeforeUnitWeight, KgField}

\* Records that follow the first one in a response.
LaterRecords ==
  {[UnitWeightOnly EXCEPT !.ManufacturerPartNumber = W(<<"r", "1">>)], KgField}

RECURSIVE SeqsUpTo(_, _)
SeqsUpTo(S, n) ==
  IF n <= 0 THEN {<<>>}
  ELSE LET shorter == SeqsUpTo(S, n - 1)
       IN shorter \cup {Append(q, x) : q \in shorter, x \in S}

SearchLists ==
  {<<>>} \cup {<<f>> \o rest : f \in FirstRecords, rest \in SeqsUpTo(LaterRecords, MaxParts - 1)}

ShortLists == {<<DirectAndUrl>>, <<NoWeightUrl>>}

VendorError == Msg("Invalid unique identifier.")

OkDatas ==
  {VendorData("array", l, <<>>) : l \in SearchLists}
    \cup {VendorData(sh, l, <<>>) : sh \in {"nestedParts", "nestedPart"}, l \in ShortLists}
    \cup {VendorData("array", l, <<VendorError>>) : l \in ShortLists \cup {<<>>}}
    \cup {EmptyData}

ErrorDatas ==
  {EmptyData, VendorData("missing", <<>>, <<VendorError>>),
   VendorData("array", <<DirectAndUrl>>, <<>>)}

SearchOutcomes ==
  {SearchOutcome("reject", 0, "reject", EmptyData)}
    \cup {SearchOutcome("response", st, "reject", EmptyData) : st \in {200, 403, 500}}
    \cup {SearchOutcome("response", 200, "ok", d) : d \in OkDatas}
    \cup {SearchOutcome("response", st, "ok", d) : st \in {403, 500}, d \in ErrorDatas}

Pages ==
  {<<>>,
   <<"<td>", "Unit", " ", "Weight", ":", "</b>", "</td>", "\n", "<td>", "5", ".", "5", " ", "m", "g", "</td>">>,
   <<"<td>", "Unit", " ", "Weight", "</td>", "<td class=v>", "1", ",", "0", "0", "0", " ", "m", "g", "</td>">>,
   <<"junk", " ", "Unit", " ", "Weight", ":", " ", "5", " ", "g">>,
   <<"\"", "unit", "Weight", "\"", ":", "\"", "0", " ", "m", "g", "\"">>,
   <<"\"", "unit", "Weight", "\"", ":", "\"", "n", "/", "a", "\"">>,
   <<"unit", "Weight", "\\", "\"", ":", "\\", "\"", "5", "g", "\\", "\"">>,
   <<"<td>", "Unit", " ", "Weight", "</td>", "<td>">>,
   <<"junk", " ", "junk">>}

PageOutcomes ==
  {PageOutcome("reject", 0, <<>>), PageOutcome("textReject", 200, <<>>)}
    \cup {PageOutcome("body", st, h) : st \in {200, 403}, h \in Pages}

PartInputs == {Undefined, W(<<" ">>), W(<<"r", "1">>), W(<<" ", "R", "1", " ">>)}

QtyInputs == {Undefined} \cup {Num(<<k>>, 0) : k \in 1..MaxQty}

KeyInputs == {Undefined, W(<<>>), Msg("key")}

Impls == {"html", "api", "keyword"}

\* --------------------------------------------------------------------- state

NoSearch == SearchOutcome("none", 0, "reject", EmptyData)

NoPage == PageOutcome("none", 0, <<>>)

\* One invocation of the handler: its event, where it stands, the outbound
\* calls it has issued and those still in flight, what came back, its locals
\* that live across an await, and its response.
NewRequest(impl, part, qty) ==
  [impl |-> impl, event |-> [part |-> part, qty |-> qty], pc |-> "start",
   part |-> <<>>, calls |-> <<>>, inflight |-> {},
   search |-> NoSearch, page |-> NoPage,
   hasFirst |-> FALSE, first |-> EmptyPart, resp |-> NoResponse]

Reqs == {1}

VARIABLES
  req,     \* the invocations, by their number
  apiKey   \* process.env.MOUSER_API_KEY

vars == <<req, apiKey>>

Init ==
  /\ apiKey \in KeyInputs
  /\ req \in [Reqs -> {NewRequest(i, p, n) : i \in Impls, p \in PartInputs, n \in QtyInputs}]

\* return json(...)
Return(q, response) == [q EXCEPT !.pc = "done", !.resp = response]

\* fetch(...) is called and awaited.
Fetch(q, what, pc) ==
  [q EXCEPT !.pc = pc, !.calls = Append(@, what), !.inflight = @ \cup {what}]

\* The call is not awaited: it stays in flight while the handler goes on.
Settle_noAwait(q, what) == q

Settle(q, what) == [q EXCEPT !.inflight = @ \ {what}]

\* The checks without the one of the API key.
Begin_noKeyCheck(q, key) ==
  LET part == Trim(Or(q.event.part, Str(<<>>)).s)
  IN IF part = <<>> THEN Return(q, json(400, ErrorBody(Msg("Missing ?part=..."))))
     ELSE Fetch([q EXCEPT !.part = part], "search", "vendor")

\* Lines 185-203: the checks, then the vendor search call.
Begin(q, key) ==
  LET part == PartOf(q.event)
  IN IF part = <<>> THEN Return(q, MissingPart)
     ELSE IF ~Truthy(key) THEN Return(q, MissingKey)
     ELSE Fetch([q EXCEPT !.part = part], "search", "vendor")

\* Lines 205-255: from the vendor's response to the page fetch or the result.
AfterVendor(q, out) ==
  LET s == Settle([q EXCEPT !.search = out], "search")
      apiData == ApiData(out)
      fp == FirstProduct(apiData)
  IN IF out.kind = "reject" THEN Return(s, Caught(FetchFailedMessage))
     ELSE IF ~RespOk(out) THEN Return(s, VendorFailed(out, apiData))
     ELSE IF ~fp.found THEN Return(s, NotFound(q.part))
     ELSE IF ShouldScrape(fp.first)
          THEN Fetch([s EXCEPT !.hasFirst = TRUE, !.first = fp.first], "page", "page")
          ELSE Return([s EXCEPT !.hasFirst = TRUE, !.first = fp.first],
                      Resolved(q.part, fp.first, Null))

\* The scraper without its try/catch: a rejected page fetch reaches the
\* handler's catch.
AfterPage_noCatch(q, out) ==
  LET s == Settle([q EXCEPT !.page = out], "page")
  IN IF out.kind = "reject" THEN Return(s, Caught(FetchFailedMessage))
     ELSE Return(s, Resolved(q.part, q.first, scrapeUnitWeightFromMouserPage(out)))

\* Lines 250-277: from the page to the result.
AfterPage(q, out) ==
  LET s == Settle([q EXCEPT !.page = out], "page")
  IN Return(s, Resolved(q.part, q.first, scrapeUnitWeightFromMouserPage(out)))

handler_start(r) ==
  /\ req[r].impl = "html" /\ req[r].pc = "start"
  /\ req' = [req EXCEPT ![r] = Begin(@, apiKey)]
  /\ UNCHANGED apiKey

handler_vendor(r) ==
  /\ req[r].impl = "html" /\ req[r].pc = "vendor"
  /\ \E out \in SearchOutcomes : req' = [req EXCEPT ![r] = AfterVendor(@, out)]
  /\ UNCHANGED apiKey

handler_page(r) ==
  /\ req[r].impl = "html" /\ req[r].pc = "page"
  /\ \E out \in PageOutcomes : req' = [req EXCEPT ![r] = AfterPage(@, out)]
  /\ UNCHANGED apiKey

\* "api" snapshot, lines 4-25 and 27-69.
Begin_api(q, key) == Begin(q, key)

AfterVendor_api(q, out) ==
  LET s == Settle([q EXCEPT !.search = out], "search")
      data == ApiData(out)
      fp == FirstProduct_api(data)
  IN IF out.kind = "reject" THEN Return(s, Caught(FetchFailedMessage))
     ELSE IF ~RespOk(out) THEN Return(s, VendorFailed(out, data))
     ELSE IF ~fp.found THEN Return(s, NotFound_api)
     ELSE Return([s EXCEPT !.hasFirst = TRUE, !.first = fp.first], Resolved_api(fp.first))

handler_api_start(r) ==
  /\ req[r].impl = "api" /\ req[r].pc = "start"
  /\ req' = [req EXCEPT ![r] = Begin_api(@, apiKey)]
  /\ UNCHANGED apiKey

handler_api_vendor(r) ==
  /\ req[r].impl = "api" /\ req[r].pc = "vendor"
  /\ \E out \in SearchOutcomes : req' = [req EXCEPT ![r] = AfterVendor_api(@, out)]
  /\ UNCHANGED apiKey

\* "keyword" snapshot, lines 5-36 and 38-89.
Begin_keyword(q, key) ==
  LET partRaw == PartOf(q.event)
  IN IF partRaw = <<>> THEN Return(q, MissingPart_keyword)
     ELSE IF ~Truthy(key) THEN Return(q, MissingKey_keyword)
     ELSE Fetch([q EXCEPT !.part = toUpperCase(partRaw)], "search", "vendor")

AfterVendor_keyword(q, out) ==
  LET s == Settle([q EXCEPT !.search = out], "search")
      parts == Parts_keyword(out.data)
      exact == Exact(parts, q.part)
  IN IF out.kind = "reject" THEN Return(s, Caught(FetchFailedMessage))
     ELSE IF out.parse = "reject" THEN Return(s, Caught(JsonSyntaxMessage))
     ELSE IF ~RespOk(out) \/ out.data.errors # <<>>
          THEN Return(s, VendorFailed_keyword(out, out.data.errors))
     ELSE IF parts = <<>> THEN Return(s, NotFound_keyword)
     ELSE Return([s EXCEPT !.hasFirst = TRUE, !.first = exact], Resolved_keyword(exact))

handler_keyword_start(r) ==
  /\ req[r].impl = "keyword" /\ req[r].pc = "start"
  /\ req' = [req EXCEPT ![r] = Begin_keyword(@, apiKey)]
  /\ UNCHANGED apiKey

handler_keyword_vendor(r) ==
  /\ req[r].impl = "keyword" /\ req[r].pc = "vendor"
  /\ \E out \in SearchOutcomes : req' = [req EXCEPT ![r] = AfterVendor_keyword(@, out)]
  /\ UNCHANGED apiKey

Next ==
  \E r \in Reqs :
    \/ handler_start(r)
    \/ handler_vendor(r)
    \/ handler_page(r)
    \/ handler_api_start(r)
    \/ handler_api_vendor(r)
    \/ handler_keyword_start(r)
    \/ handler_keyword_vendor(r)

Spec == Init /\ [][Next]_vars

\* --------------------------------------------------------------- properties

Done(q) == q.pc = "done"

Issued(q, what) == \E i \in 1..Len(q.calls) : q.calls[i] = what

\* The part identifier of the event is missing, or empty after trimming.
PartBlank(event) ==
  \/ ~IsString(event.part)
  \/ \A i \in 1..Len(event.part.s) : event.part.s[i] = " "

\* The requested quantity: qty, 1 when the event has none.
RequestedQty(event) == IF event.qty.t = "number" THEN IntOf(event.qty.d) ELSE 1

ConfigErrors == {MissingKey, MissingKey_keyword}

InvalidInputs == {MissingPart, MissingPart_keyword}

\* The vendor search call failed: transport error, non-success status, or a
\* body that does not parse.
SearchFailed(out) ==
  \/ out.kind = "reject"
  \/ out.kind = "response" /\ (~(out.status \in 200..299) \/ out.parse = "reject")

\* The vendor search succeeded with an empty result set.
SearchEmpty(out) ==
  /\ out.kind = "response" /\ out.status \in 200..299 /\ out.parse = "ok"
  /\ out.data.shape = "array" /\ out.data.parts = <<>> /\ out.data.errors = <<>>

\* The response reports "not found".
SaysNotFound(resp) ==
  resp.body.error = Msg("Not found on Mouser") \/ resp.body.notFound = True

\* Pages of the model that hold no weight: an empty body, a table cut off
\* after the label (malformed), text without the label, a value with no unit.
FailingPages ==
  {<<>>,
   <<"<td>", "Unit", " ", "Weight", "</td>", "<td>">>,
   <<"junk", " ", "junk">>,
   <<"\"", "unit", "Weight", "\"", ":", "\"", "n", "/", "a", "\"">>}

\* The page fetch failed: transport error or timeout, or one of FailingPages.
PageFailed(out) ==
  \/ out.kind \in {"reject", "textReject"}
  \/ out.kind = "body" /\ out.html \in FailingPages

C2_ConfigErrorForEveryInput ==
  \A r \in DOMAIN req :
    apiKey = Undefined =>
      /\ req[r].calls = <<>>
      /\ Done(req[r]) => req[r].resp \in ConfigErrors

\* C2 amended: with the API key absent (or empty) no call is issued; an
\* invocation with a non-blank part identifier returns the configuration
\* error (status 500), one with a missing or blank identifier the
\* invalid-input error (status 400), because the identifier is checked first.
C2_ConfigErrorAfterPartCheck ==
  \A r \in DOMAIN req :
    ~Truthy(apiKey) =>
      /\ req[r].calls = <<>>
      /\ req[r].pc \in {"start", "done"}
      /\ Done(req[r]) =>
           IF PartBlank(req[r].event)
           THEN req[r].resp \in InvalidInputs /\ req[r].resp.statusCode = 400
           ELSE req[r].resp \in ConfigErrors /\ req[r].resp.statusCode = 500

\* C2 witness: a non-blank identifier, no key, the configuration error.
C2_Witness ==
  \E r \in DOMAIN req :
    /\ apiKey = Undefined /\ ~PartBlank(req[r].event)
    /\ Done(req[r]) /\ req[r].resp \in ConfigErrors

\* C3: when the vendor search call fails, the finished invocation carries an
\* error, unresolved, that is not "not found"; a non-success status is
\* forwarded (as the status with the details, or in the message); no record
\* was extracted and no page fetched.
C3_VendorFailureIsAnError ==
  \A r \in DOMAIN req :
    LET q == req[r]
    IN q.impl \in {"html", "keyword"} /\ Done(q) /\ SearchFailed(q.search) =>
         /\ Truthy(q.resp.body.error)
         /\ ~Truthy(q.resp.body.weight)
         /\ ~SaysNotFound(q.resp)
         /\ ~q.hasFirst /\ ~Issued(q, "page")
         /\ (q.search.kind = "response" /\ ~RespOk(q.search)) =>
              \/ q.resp.statusCode = q.search.status /\ q.resp.body.hasDetails
              \/ q.search.data.errors # <<>> /\ q.resp.body.error = q.search.data.errors[1]
              \/ \E i \in 1..Len(q.resp.body.error.s) :
                   q.resp.body.error.s[i] = StatusText(q.search.status)

\* C4: when the vendor search succeeds with an empty result set, the finished
\* invocation has status 200, weight null and a non-null error that says not
\* found, and fetched no page.
C4_EmptyResultIsNotFound ==
  \A r \in DOMAIN req :
    LET q == req[r]
    IN q.impl \in {"html", "keyword"} /\ Done(q) /\ SearchEmpty(q.search) =>
         /\ q.resp.statusCode = 200
         /\ q.resp.body.weight = Null
         /\ ~IsNullish(q.resp.body.error)
         /\ ~Issued(q, "page")

\* C5: whatever way the page fetch fails, the invocation finishes with a
\* status-200 result that holds nothing scraped and no weight, and says that
\* no weight was found: the failure is not a top-level error.
C5_ScrapeFailureNotFatal ==
  \A r \in DOMAIN req :
    LET q == req[r]
    IN q.impl = "html" /\ q.page # NoPage /\ PageFailed(q.page) =>
         /\ Done(q)
         /\ q.resp.statusCode = 200
         /\ q.resp.body.scrapedFromHtml = Null
         /\ q.resp.body.rawWeight = Null
         /\ q.resp.body.weight = Null
         /\ q.resp.body.error = Msg("Weight not found (API + HTML scrape)")

\* C5 witness: the page fetch was rejected and the result has status 200.
C5_Witness ==
  \E r \in DOMAIN req :
    /\ req[r].page.kind = "reject" /\ Done(req[r])
    /\ req[r].resp.statusCode = 200

\* C6: the outbound calls of an invocation are none, the vendor search, or
\* the vendor search and then the page fetch; at most one is in flight; the
\* page fetch is issued only once the search has settled with a success
\* status and a record that has a product URL; and an invocation that passed
\* its checks issued the search.
C6_CallsInSequence ==
  \A r \in DOMAIN req :
    LET q == req[r]
    IN /\ q.calls \in {<<>>, <<"search">>, <<"search", "page">>}
       /\ Cardinality(q.inflight) <= 1
       /\ Issued(q, "page") =>
            /\ "search" \notin q.inflight
            /\ q.search.kind = "response" /\ q.search.status \in 200..299
            /\ q.search.data.parts # <<>>
            /\ q.first = q.search.data.parts[1]
            /\ Truthy(q.first.ProductDetailUrl)
       /\ (q.pc # "start" /\ ~PartBlank(q.event) /\ Truthy(apiKey)) => Issued(q, "search")
       /\ q.pc = "vendor" <=> q.inflight = {"search"}
       /\ q.pc = "page" <=> q.inflight = {"page"}

\* C6 witness: an invocation that issued both calls and finished.
C6_Witness ==
  \E r \in DOMAIN req : Done(req[r]) /\ req[r].calls = <<"search", "page">>

\* C7: an invocation whose part identifier is missing or blank issues no
\* call, and finishes with the invalid-input response (status 400).
C7_InvalidInputBeforeNetwork ==
  \A r \in DOMAIN req :
    PartBlank(req[r].event) =>
      /\ req[r].calls = <<>>
      /\ req[r].pc \in {"start", "done"}
      /\ Done(req[r]) =>
           /\ req[r].resp.statusCode = 400
           /\ req[r].resp \in InvalidInputs

\* C7 witness: a blank identifier was refused although the key is set.
C7_Witness ==
  \E r \in DOMAIN req :
    /\ req[r].event.part = W(<<" ">>) /\ Truthy(apiKey)
    /\ Done(req[r]) /\ req[r].resp.statusCode = 400

\* The text of the record names the package code 0603.
Names0603(first) ==
  IsString(first.Description) /\ \E i \in 1..Len(first.Description.s) : first.Description.s[i] = "0603"

\* C8: when the extractor finds nothing and the record has no product URL or
\* the scrape fails, a record whose text names the package code 0603 is
\* resolved by package inference: a weight, with a source that is none of the
\* labels of the other stages.
C8_PackageInferenceLast ==
  \A r \in DOMAIN req :
    LET q == req[r]
    IN (/\ q.impl = "html" /\ Done(q) /\ q.hasFirst
        /\ ~Truthy(rawWeightFromApi(q.first))
        /\ (~Truthy(q.first.ProductDetailUrl) \/ PageFailed(q.page))
        /\ Names0603(q.first)) =>
         /\ q.resp.body.weight.t = "number"
         /\ q.resp.body.source \notin
              {Msg("Mouser API"), Msg("Mouser HTML"), Msg("Mouser (No Weight)")}

\* The unit weight a result rests on: the parse of the expression it reports.
UnitWeightOf(resp) == parseWeightToLbs(resp.body.rawWeight).weightLbs

\* C9: the weight of a status-200 result for a found record is the unit
\* weight times the requested quantity, and null when the unit weight is
\* unresolved.
C9_QuantityScaling ==
  \A r \in DOMAIN req :
    LET q == req[r]
        unit == UnitWeightOf(q.resp)
    IN q.impl = "html" /\ Done(q) /\ q.hasFirst =>
         IF unit.t = "number"
         THEN q.resp.body.weight = Num(MulDigits(unit.d, RequestedQty(q.event)), unit.e)
         ELSE q.resp.body.weight = Null

\* C10: a status-200 result for a found record is labelled with the stage
\* its weight came from: the vendor label exactly when the weight is resolved
\* from the record, the HTML label exactly when it is resolved from the page,
\* and never "no weight" when the weight is not null.
C10_ProvenanceLabel ==
  \A r \in DOMAIN req :
    LET q == req[r]
        b == q.resp.body
        resolved == ~IsNullish(b.weight)
    IN q.impl = "html" /\ Done(q) /\ q.hasFirst =>
         /\ b.source = Msg("Mouser API") <=> (resolved /\ ~Truthy(b.scrapedFromHtml))
         /\ b.source = Msg("Mouser HTML") <=> (resolved /\ Truthy(b.scrapedFromHtml))
         /\ resolved => b.source # Msg("Mouser (No Weight)")

\* An exception was raised while the vendor's answer was obtained: the fetch
\* rejected, or the body did not parse as JSON.
SearchThrew(out) ==
  out.kind = "reject" \/ (out.kind = "response" /\ out.parse = "reject")

\* C11: every invocation that ends has exactly one response, and one during
\* which the vendor fetch rejected or the vendor body did not parse ends with
\* the status-500 error response of the handler's catch.
C11_ExceptionsBecome500 ==
  \A r \in DOMAIN req :
    LET q == req[r]
    IN /\ Done(q) <=> q.resp # NoResponse
       /\ Done(q) /\ q.search # NoSearch /\ SearchThrew(q.search) =>
            /\ q.resp.statusCode = 500
            /\ q.resp.body = ErrorBody(q.resp.body.error)
            /\ Truthy(q.resp.body.error)

\* The manufacturer part number of record p equals the identifier part,
\* letter case aside.
NamesPart(p, part) ==
  IsString(p.ManufacturerPartNumber)
    /\ toUpperCase(p.ManufacturerPartNumber.s) = toUpperCase(part)

\* C12: when the vendor search returned records, the selected record is one
\* whose manufacturer part number equals the query identifier, letter case
\* aside, if the list holds such a record anywhere, and the first record of
\* the list otherwise.
C12_ExactMatchPreferred ==
  \A r \in DOMAIN req :
    LET q == req[r]
        parts == q.search.data.parts
    IN q.hasFirst /\ q.search.data.shape = "array" /\ parts # <<>> =>
         IF \E i \in 1..Len(parts) : NamesPart(parts[i], q.part)
         THEN NamesPart(q.first, q.part)
         ELSE q.first = parts[1]

\* C13: when the product page was answered with a status other than 200, the
\* scraper gave nothing, whatever the body holds: the result reports no
\* scraped text and is not labelled as scraped.
C13_Non200PageUnresolved ==
  \A r \in DOMAIN req :
    LET q == req[r]
    IN Done(q) /\ q.page.kind = "body" /\ q.page.status # 200 =>
         /\ scrapeUnitWeightFromMouserPage(q.page) = Null
         /\ q.resp.body.scrapedFromHtml = Null
         /\ q.resp.body.source # Msg("Mouser HTML")

\* The attribute a has a value that is a string and not blank.
NonEmptyValue(a) == IsString(a.AttributeValue) /\ Trim(a.AttributeValue.s) # <<>>

\* The attributes of attrs with a non-empty value whose name matches the
\* k-th name pattern (unit weight, net weight, package weight, weight, mass).
Ranked(attrs, k) ==
  {i \in 1..Len(attrs) : NonEmptyValue(attrs[i]) /\ PriorityTest(k, NameText(attrs[i]))}

\* The name patterns that some attribute of attrs with a non-empty value matches.
RanksMet(attrs) == {k \in 1..PriorityCount : Ranked(attrs, k) # {}}

\* The record p holds no direct weight field.
NoDirectField(p) ==
  /\ p.UnitWeight = Undefined /\ p.Weight = Undefined
  /\ p.NetWeight = Undefined /\ p.PackageWeight = Undefined

\* C14: for a record with no direct weight field and a flat list of
\* attributes, the weight expression used is the value of the first attribute,
\* among those with a non-empty value, that matches the name pattern of
\* highest priority that any of them matches, wherever it stands in the list.
C14_AttributeByPatternPriority ==
  \A r \in DOMAIN req :
    LET q == req[r]
        attrs == q.first.ProductAttributes.list
    IN /\ q.impl \in {"html", "api"} /\ Done(q) /\ q.hasFirst
       /\ NoDirectField(q.first)
       /\ q.first.ProductAttributes.shape = "flat"
       /\ RanksMet(attrs) # {}
       => /\ q.resp.statusCode = 200
          /\ q.resp.body.rawWeight =
               Str(Trim(attrs[Min(Ranked(attrs, Min(RanksMet(attrs))))].AttributeValue.s))

\* The direct weight fields of record p in the order unit weight, generic
\* weight, net weight, package weight.
DirectFields(p) == <<p.UnitWeight, p.Weight, p.NetWeight, p.PackageWeight>>

\* The direct fields of p that hold a string that is not blank.
DirectHits(p) ==
  {i \in 1..Len(DirectFields(p)) :
     IsString(DirectFields(p)[i]) /\ Trim(DirectFields(p)[i].s) # <<>>}

\* C15: when a direct weight field of the selected record holds a non-empty
\* string, the weight expression used is the first such field in the order
\* unit weight, generic weight, net weight, package weight, whatever the
\* attributes of the record hold.
C15_DirectFieldsFirst ==
  \A r \in DOMAIN req :
    LET q == req[r]
    IN /\ q.impl \in {"html", "api"} /\ Done(q) /\ q.hasFirst
       /\ DirectHits(q.first) # {}
       => /\ q.resp.statusCode = 200
          /\ q.resp.body.rawWeight =
               Str(Trim(DirectFields(q.first)[Min(DirectHits(q.first))].s))

\* The record p with its attributes as a flat list.
AsFlat(p) == [p EXCEPT !.ProductAttributes = FlatAttrs(@.list)]

\* C16: for a record whose attributes arrive nested under a wrapper key, the
\* extractor gives the weight expression and provenance it gives for the same
\* attributes as a flat list, and the result reports them.
C16_NestedLikeFlat ==
  \A r \in DOMAIN req :
    LET q == req[r]
    IN /\ q.impl \in {"html", "api"} /\ Done(q) /\ q.hasFirst
       /\ q.first.ProductAttributes.shape = "nested"
       => IF q.impl = "html"
          THEN /\ rawWeightFromApi(q.first) = rawWeightFromApi(AsFlat(q.first))
               /\ q.resp.body.rawWeight = rawWeightFromApi(AsFlat(q.first))
          ELSE /\ extractRawWeight(q.first) = extractRawWeight(AsFlat(q.first))
               /\ q.resp.body.rawWeight = extractRawWeight(AsFlat(q.first)).rawWeight
               /\ q.resp.body.parsedFrom = extractRawWeight(AsFlat(q.first)).parsedFrom

\* ------------------------------------------------- the normalizer on its own

\* The longest text given to parseWeightToLbs.
MaxText == 4

\* The symbols of those texts: digits, dot, sign, space, comma, the unit
\* letters g and K (kg), and a letter of no unit.
TextSymbols == {"5", ".", "-", " ", ",", "g", "K", "x"}

RawInputs ==
  {Undefined, Null, Num(<<5>>, 0), True}
    \cup {Str(s) : s \in SeqsUpTo(TextSymbols, MaxText)}

\* A call of parseWeightToLbs of one snapshot with the argument raw.
NewCall(impl, raw) == [impl |-> impl, pc |-> "start", raw |-> raw, weightLbs |-> Undefined]

InitNormalize ==
  /\ apiKey = Undefined
  /\ req \in [Reqs -> {NewCall(i, raw) : i \in {"html", "api"}, raw \in RawInputs}]

Returned(q, result) == [q EXCEPT !.pc = "done", !.weightLbs = result.weightLbs]

call_parseWeightToLbs(r) ==
  /\ req[r].impl = "html" /\ req[r].pc = "start"
  /\ req' = [req EXCEPT ![r] = Returned(@, parseWeightToLbs(@.raw))]
  /\ UNCHANGED apiKey

call_parseWeightToLbs_api(r) ==
  /\ req[r].impl = "api" /\ req[r].pc = "start"
  /\ req' = [req EXCEPT ![r] = Returned(@, parseWeightToLbs_api(@.raw))]
  /\ UNCHANGED apiKey

NextNormalize ==
  \E r \in Reqs :
    \/ call_parseWeightToLbs(r)
    \/ call_parseWeightToLbs_api(r)

SpecNormalize == InitNormalize /\ [][NextNormalize]_vars

\* The text s, white space at its ends aside, is a minus sign immediately
\* followed by a number.
NegativeText(s) ==
  Len(TrimLeft(s)) >= 2 /\ TrimLeft(s)[1] = "-" /\ TrimLeft(s)[2] \in DigitChars \cup {"."}

\* C17: parseWeightToLbs gives null for every text whose magnitude is
\* negative, a minus sign immediately before the number as in "-5 g": the
\* sign is never dropped.
C17_NegativeRejected ==
  \A r \in DOMAIN req :
    LET q == req[r]
    IN Done(q) /\ IsString(q.raw) /\ NegativeText(q.raw.s) => q.weightLbs = Null

\* The mass units, lower-cased.
UnitTokens ==
  {<<"m", "g">>, <<"g">>, <<"k", "g">>, <<"o", "z">>, <<"l", "b">>, <<"l", "b", "s">>}

\* s[i..j] is a number: digits, dots and thousands commas with a digit among them.
IsNumberText(s, i, j) ==
  /\ \A m \in i..j : s[m] \in DigitChars \cup {".", ","}
  /\ \E m \in i..j : s[m] \in DigitChars

RECURSIVE SkipSeparators(_, _)
SkipSeparators(s, i) ==
  IF i <= Len(s) /\ s[i] \in {" ", "\t", "\n", ","} THEN SkipSeparators(s, i + 1) ELSE i

\* A unit of UnitTokens stands at k as a token: no letter, digit or underscore
\* follows it.
UnitTokenAt(s, k) ==
  \E u \in UnitTokens :
    /\ HasAt(s, k, u)
    /\ (k + Len(u) > Len(s) \/ s[k + Len(u)] \notin WordSyms)

\* s holds a mass-unit token that follows a number, white space or commas
\* between them aside.
HasUnitToken(s) ==
  \E i \in 1..Len(s) : \E j \in i..Len(s) :
    IsNumberText(s, i, j) /\ UnitTokenAt(s, SkipSeparators(s, j + 1))

\* C18: parseWeightToLbs gives null, never a number, for every argument that
\* is not a string and for every text that holds no mass-unit token following
\* a number (a bare number, a unit that runs on into a longer word, a unit
\* with no number before it).
C18_NoUnitNoWeight ==
  \A r \in DOMAIN req :
    LET q == req[r]
    IN Done(q) /\ (~IsString(q.raw) \/ ~HasUnitToken(q.raw.s)) => q.weightLbs = Null

\* ------------------------------------------------- two invocations at a time

Reqs2 == {1, 2}

\* What the vendor search answers here: a rejected fetch, a refusal, an empty
\* result, a record with a weight and a record with none.
SearchOutcomes2 ==
  {SearchOutcome("reject", 0, "reject", EmptyData),
   SearchOutcome("response", 403, "ok", EmptyData),
   SearchOutcome("response", 200, "ok", VendorData("array", <<>>, <<>>)),
   SearchOutcome("response", 200, "ok", VendorData("array", <<DirectAndUrl>>, <<>>)),
   SearchOutcome("response", 200, "ok", VendorData("array", <<NoWeightUrl>>, <<>>)),
   SearchOutcome("response", 200, "ok", VendorData("array", <<KgField>>, <<>>))}

\* What the page fetch answers here: a rejected fetch, a page with the weight
\* in its table, a page without one.
PageOutcomes2 ==
  {PageOutcome("reject", 0, <<>>),
   PageOutcome("body", 200,
     <<"<td>", "Unit", " ", "Weight", "</td>", "<td class=v>", "1", ",", "0", "0", "0", " ", "m", "g", "</td>">>),
   PageOutcome("body", 200, <<"junk", " ", "junk">>)}

\* The first step of an invocation of snapshot impl on its own.
Started(impl, q, key) ==
  CASE impl = "html" -> Begin(q, key)
    [] impl = "api" -> Begin_api(q, key)
    [] OTHER -> Begin_keyword(q, key)

\* Its step after the vendor's answer out.
Answered(impl, q, out) ==
  CASE impl = "html" -> AfterVendor(q, out)
    [] impl = "api" -> AfterVendor_api(q, out)
    [] OTHER -> AfterVendor_keyword(q, out)

InitTwo ==
  /\ apiKey \in KeyInputs
  /\ req \in [Reqs2 -> {NewRequest(i, p, Undefined) :
                          i \in Impls, p \in {W(<<" ">>), W(<<"r", "1">>), W(<<"x", "9">>)}}]

invoke_start(r) ==
  /\ req[r].pc = "start"
  /\ req' = [req EXCEPT ![r] = Started(@.impl, @, apiKey)]
  /\ UNCHANGED apiKey

\* The handler with a memory of past lookups: the answer another invocation
\* got from the vendor is used in place of the vendor's answer to this one.
invoke_vendor_shared(r) ==
  /\ req[r].pc = "vendor"
  /\ \E out \in SearchOutcomes2 :
       LET past == {o \in DOMAIN req \ {r} : req[o].search # NoSearch}
           used == IF past = {} THEN out ELSE req[Min(past)].search
       IN req' = [req EXCEPT ![r] = [Answered(@.impl, @, used) EXCEPT !.search = out]]
  /\ UNCHANGED apiKey

invoke_vendor(r) ==
  /\ req[r].pc = "vendor"
  /\ \E out \in SearchOutcomes2 : req' = [req EXCEPT ![r] = Answered(@.impl, @, out)]
  /\ UNCHANGED apiKey

invoke_page(r) ==
  /\ req[r].pc = "page"
  /\ \E out \in PageOutcomes2 : req' = [req EXCEPT ![r] = AfterPage(@, out)]
  /\ UNCHANGED apiKey

\* The steps of the two invocations, interleaved in any order.
NextTwo ==
  \E r \in Reqs2 :
    \/ invoke_start(r)
    \/ invoke_vendor(r)
    \/ invoke_page(r)

SpecTwo == InitTwo /\ [][NextTwo]_vars

\* Where the invocation q stands when it runs alone with the event of q, the
\* key, and the answers q got from the vendor search and the page fetch so far.
Alone(q, key) ==
  IF q.pc = "start" THEN NewRequest(q.impl, q.event.part, q.event.qty)
  ELSE IF q.search = NoSearch
       THEN Started(q.impl, NewRequest(q.impl, q.event.part, q.event.qty), key)
  ELSE IF q.page = NoPage
       THEN Answered(q.impl,
                     Started(q.impl, NewRequest(q.impl, q.event.part, q.event.qty), key),
                     q.search)
  ELSE AfterPage(Answered(q.impl,
                          Started(q.impl, NewRequest(q.impl, q.event.part, q.event.qty), key),
                          q.search),
                 q.page)

\* C19: with the steps of two invocations interleaved in any order, each
\* invocation is at every step where it is when run alone with the same
\* event, key and collaborator answers, its response included: nothing one
\* invocation writes is read by the other.
C19_Isolated ==
  \A r \in DOMAIN req : req[r] = Alone(req[r], apiKey)

\* C19 witness: both invocations ended, one resolved from the record and the
\* other, given a different answer by the vendor, after its page fetch, with
\* different responses.
C19_Witness ==
  /\ DOMAIN req = Reqs2
  /\ Done(req[1]) /\ Done(req[2])
  /\ req[1].impl = "html" /\ req[2].impl = "html"
  /\ req[1].calls = <<"search">> /\ req[2].calls = <<"search", "page">>
  /\ Truthy(req[1].resp.body.weight) /\ Truthy(req[2].resp.body.weight)
  /\ req[1].resp # req[2].resp

\* C20: in every status-200 result for a record the vendor returned, the
\* error is null exactly when the weight is not null, a weight of 0 included.
C20_ErrorIffNoWeight ==
  \A r \in DOMAIN req :
    LET q == req[r]
    IN /\ q.impl \in {"html", "api"} /\ Done(q) /\ q.hasFirst
       /\ q.resp.statusCode = 200
       => (q.resp.body.error = Null <=> q.resp.body.weight # Null)

====
